---- MODULE Spec2Model ----
(***************************************************************************)
(* A model of the notebook examples/structured_data/ipynb/                 *)
(* wide_deep_cross_networks.ipynb: the covertype data preparation (reshape *)
(* of the binary-encoded columns, label shift, stratified random split,    *)
(* CSV files), the dataset metadata, and the three experiments (baseline,  *)
(* Wide & Deep, Deep & Cross), each built, compiled, fitted and evaluated. *)
(*                                                                         *)
(* A DataFrame is a record [columns, index, rows]: the column labels, the  *)
(* row labels and the rows (tuples, one value per column).  Python lists   *)
(* are sequences; the Python position p is the TLA+ position p + 1.        *)
(***************************************************************************)
EXTENDS Integers, Sequences, FiniteSets, Bags, TLC

\* The largest number of records of the downloaded table that is explored.
MaxRows == 2

----------------------------------------------------------------------------
(* Helpers on sequences.                                                   *)

Range(s) == {s[i] : i \in DOMAIN s}

RECURSIVE Concat(_)
\* pd.concat / layers.concatenate of a list of sequences
Concat(ss) == IF ss = <<>> THEN <<>> ELSE Head(ss) \o Concat(Tail(ss))

\* s[mask]: the entries of s at the positions where the boolean mask holds
RECURSIVE Mask(_, _)
Mask(s, m) ==
    IF s = <<>> THEN <<>>
    ELSE (IF Head(m) THEN <<Head(s)>> ELSE <<>>) \o Mask(Tail(s), Tail(m))

\* the bijections of 1..n, each one an order in which n rows can be drawn
Orders(n) == {p \in [1..n -> 1..n] : \A i, j \in 1..n : p[i] = p[j] => i = j}

IndexOf(s, v) == CHOOSE i \in DOMAIN s : s[i] = v

----------------------------------------------------------------------------
(* The raw table: 55 unlabeled columns, labelled 0..54 by read_csv.        *)

NumFirst == 0
NumLast == 9
WildFirst == 10
WildLast == 13
SoilFirst == 14
SoilLast == 53
LabelCol == 54
NumSoilValues == 40
NumAreaValues == 4

\* raw_data.columns with header=None: 0..54
RawColumns == [i \in 1..(LabelCol + 1) |-> i - 1]

\* a raw row: ten numeric values, the wilderness flags set at the positions
\* w (1-based), the soil flags set at the positions s, and the label
RawRow(nums, w, s, label) ==
    nums \o [i \in 1..(WildLast - WildFirst + 1) |-> IF i \in w THEN 1 ELSE 0]
         \o [i \in 1..(SoilLast - SoilFirst + 1) |-> IF i \in s THEN 1 ELSE 0]
         \o <<label>>

\* The rows a downloaded table is drawn from: the first two records of
\* covtype.data for the numeric columns, flags with one, two or no nonzero
\* entry, and several labels.
SampleRows ==
    LET n1 == <<2596, 51, 3, 258, 0, 510, 221, 232, 148, 6279>>
        n2 == <<2590, 56, 2, 212, -6, 390, 220, 235, 151, 6225>>
    IN  { RawRow(n1, {1}, {29}, 5),
          RawRow(n2, {1}, {29}, 5),
          RawRow(n1, {4}, {40}, 2),
          RawRow(n2, {3}, {12, 40}, 7),
          RawRow(n1, {}, {1}, 1),
          RawRow(n2, {2}, {}, 3) }

RawTables == UNION {[1..n -> SampleRows] : n \in 1..MaxRows}

\* pd.read_csv(data_url, header=None)
ReadCsvUrl(table) ==
    [columns |-> RawColumns,
     index   |-> [i \in 1..Len(table) |-> i - 1],
     rows    |-> table]

NoFrame == [columns |-> <<>>, index |-> <<>>, rows |-> <<>>]
Defined(df) == df.columns # <<>>

\* row.loc[a:b] on integer column labels: both ends included
Loc(row, a, b) == SubSeq(row, a + 1, b + 1)

\* df[name] of one row
Cell(df, row, name) == row[IndexOf(df.columns, name)]

\* df[name]: the column as a sequence
Column(df, name) == [i \in DOMAIN df.rows |-> Cell(df, df.rows[i], name)]

----------------------------------------------------------------------------
(* Reshaping: the binary-encoded columns become one value each.            *)

\* mutant: the names numbered from 0, f"soil_type_{idx}"
soil_type_values_from_zero ==
    [i \in 1..NumSoilValues |-> "soil_type_" \o ToString(i - 1)]

soil_type_values ==
    [i \in 1..NumSoilValues |-> "soil_type_" \o ToString(i)]
wilderness_area_values ==
    [i \in 1..NumAreaValues |-> "area_type_" \o ToString(i)]

\* x.to_numpy().nonzero()[0]: the positions (Python, 0-based) of the nonzero
\* entries, ascending
Nonzero(x) == {i - 1 : i \in {j \in DOMAIN x : x[j] # 0}}

\* nonzero()[0][0]: the first of them; an IndexError when there is none
HasNonzero(x) == Nonzero(x) # {}
FirstNonzero(x) == CHOOSE p \in Nonzero(x) : \A q \in Nonzero(x) : p <= q

\* the lambda applied to each row of raw_data.loc[:, 14:53]
SoilTypeOf(row) ==
    soil_type_values[FirstNonzero(Loc(row, SoilFirst, SoilLast)) + 1]
\* the lambda applied to each row of raw_data.loc[:, 10:13]
WildernessAreaOf(row) ==
    wilderness_area_values[FirstNonzero(Loc(row, WildFirst, WildLast)) + 1]

\* both apply calls succeed on this row
RowConvertible(row) ==
    /\ HasNonzero(Loc(row, SoilFirst, SoilLast))
    /\ HasNonzero(Loc(row, WildFirst, WildLast))

CSV_HEADER ==
    << "Elevation", "Aspect", "Slope",
       "Horizontal_Distance_To_Hydrology", "Vertical_Distance_To_Hydrology",
       "Horizontal_Distance_To_Roadways",
       "Hillshade_9am", "Hillshade_Noon", "Hillshade_3pm",
       "Horizontal_Distance_To_Fire_Points",
       "Wilderness_Area", "Soil_Type", "Cover_Type" >>

TARGET_FEATURE_NAME == "Cover_Type"

\* mutant: soil_type and wilderness_area exchanged in the concat list
ConcatColumnsSwapped(row) ==
    Loc(row, NumFirst, NumLast)
        \o <<SoilTypeOf(row), WildernessAreaOf(row), row[LabelCol + 1]>>

\* pd.concat([raw 0:9, wilderness_area, soil_type, raw 54], axis=1) of a row
ConcatColumns(row) ==
    Loc(row, NumFirst, NumLast)
        \o <<WildernessAreaOf(row), SoilTypeOf(row), row[LabelCol + 1]>>

\* mutant: the label left as downloaded
ShiftLabelNone(label) == label

\* data["Cover_Type"] = data["Cover_Type"] - 1
ShiftLabel(label) == label - 1

\* the reshaped table: concat, data.columns = CSV_HEADER, the label shift
ReshapedData(raw) ==
    LET named == [columns |-> CSV_HEADER, index |-> raw.index,
                  rows |-> [i \in DOMAIN raw.rows |-> ConcatColumns(raw.rows[i])]]
        t == IndexOf(named.columns, TARGET_FEATURE_NAME)
    IN  [named EXCEPT !.rows =
            [i \in DOMAIN named.rows |->
                [named.rows[i] EXCEPT ![t] = ShiftLabel(named.rows[i][t])]]]

----------------------------------------------------------------------------
(* The split.                                                              *)

\* np.random.rand draws, in hundredths, and the threshold 0.85
RandDraws == {0, 85, 86}
SplitThreshold == 85

\* the keys of groupby("Cover_Type"), ascending
RECURSIVE SortedSeq(_)
SortedSeq(S) ==
    IF S = {} THEN <<>>
    ELSE LET m == CHOOSE x \in S : \A y \in S : x <= y
         IN  <<m>> \o SortedSeq(S \ {m})

\* the rows of df selected by a boolean mask, with their index labels
Select(df, m) ==
    [columns |-> df.columns, index |-> Mask(df.index, m), rows |-> Mask(df.rows, m)]

\* data.groupby("Cover_Type"): one frame per key, in key order
GroupBy(df, name) ==
    LET keys == SortedSeq(Range(Column(df, name)))
    IN  [k \in DOMAIN keys |->
            Select(df, [i \in DOMAIN df.rows |-> Cell(df, df.rows[i], name) = keys[k]])]

\* pd.concat(frames): rows and index labels in list order
ConcatFrames(frames) ==
    [columns |-> frames[1].columns,
     index   |-> Concat([k \in DOMAIN frames |-> frames[k].index]),
     rows    |-> Concat([k \in DOMAIN frames |-> frames[k].rows])]

\* mutant: a sample that leaves the last drawn row out (frac below 1)
SampleShort(df, p) ==
    [columns |-> df.columns,
     index   |-> [i \in 1..(Len(df.rows) - 1) |-> df.index[p[i]]],
     rows    |-> [i \in 1..(Len(df.rows) - 1) |-> df.rows[p[i]]]]

\* df.sample(frac=1) drawing the rows in the order p
Sample(df, p) ==
    [columns |-> df.columns,
     index   |-> [i \in DOMAIN df.rows |-> df.index[p[i]]],
     rows    |-> [i \in DOMAIN df.rows |-> df.rows[p[i]]]]

\* df.reset_index(drop=True)
ResetIndex(df) == [df EXCEPT !.index = [i \in DOMAIN df.rows |-> i - 1]]

----------------------------------------------------------------------------
(* The CSV files.  A file is a sequence of lines, a line a sequence of     *)
(* fields.  A numeric field is its decimal text, a sequence of one-letter  *)
(* strings; a text field is the string itself.                             *)

Digits == <<"0", "1", "2", "3", "4", "5", "6", "7", "8", "9">>

RECURSIVE FormatNat(_)
FormatNat(n) ==
    IF n < 10 THEN <<Digits[n + 1]>>
    ELSE FormatNat(n \div 10) \o <<Digits[(n % 10) + 1]>>

\* the decimal text to_csv writes for an integer
FormatInt(n) == IF n < 0 THEN <<"-">> \o FormatNat(-n) ELSE FormatNat(n)

RECURSIVE ParseNat(_, _)
ParseNat(cs, acc) ==
    IF cs = <<>> THEN acc
    ELSE ParseNat(Tail(cs), 10 * acc + (IndexOf(Digits, Head(cs)) - 1))

\* the integer the CSV reader parses from a decimal text
ParseInt(cs) ==
    IF Head(cs) = "-" THEN -ParseNat(Tail(cs), 0) ELSE ParseNat(cs, 0)

\* the columns of dtype object: the two Series of strings built by apply
ObjectColumns == {"Wilderness_Area", "Soil_Type"}

\* df.to_csv(path, index=False): the header line, then one line per row
ToCsv(df) ==
    <<df.columns>> \o
    [i \in DOMAIN df.rows |->
        [c \in DOMAIN df.columns |->
            IF df.columns[c] \in ObjectColumns
            THEN df.rows[i][c]
            ELSE FormatInt(df.rows[i][c])]]

train_data_file == "train_data.csv"
test_data_file == "test_data.csv"
FileNames == {train_data_file, test_data_file}

----------------------------------------------------------------------------
(* The dataset metadata.                                                   *)

TARGET_FEATURE_LABELS == <<"0", "1", "2", "3", "4", "5", "6">>

NUMERIC_FEATURE_NAMES ==
    << "Aspect", "Elevation", "Hillshade_3pm", "Hillshade_9am", "Hillshade_Noon",
       "Horizontal_Distance_To_Fire_Points", "Horizontal_Distance_To_Hydrology",
       "Horizontal_Distance_To_Roadways", "Slope",
       "Vertical_Distance_To_Hydrology" >>

\* Series.unique(): the distinct values in the order of their first occurrence
RECURSIVE Unique(_)
Unique(s) ==
    IF s = <<>> THEN <<>>
    ELSE LET u == Unique(SubSeq(s, 1, Len(s) - 1))
         IN  IF s[Len(s)] \in Range(u) THEN u ELSE Append(u, s[Len(s)])

\* list(df[name].unique())
Vocabulary(df, name) == Unique(Column(df, name))

\* the dictionary literal over the table df, its keys in insertion order
VocabularyDict(df) ==
    << [name |-> "Soil_Type", vocabulary |-> Vocabulary(df, "Soil_Type")],
       [name |-> "Wilderness_Area", vocabulary |-> Vocabulary(df, "Wilderness_Area")] >>

\* list(d.keys())
Keys(d) == [i \in DOMAIN d |-> d[i].name]
\* d[key]
Get(d, key) == d[CHOOSE i \in DOMAIN d : d[i].name = key].vocabulary

\* [0] for the numeric and the target columns, ["NA"] for the others; the
\* default's type is the type the column is parsed to
COLUMN_DEFAULTS ==
    [i \in DOMAIN CSV_HEADER |->
        IF CSV_HEADER[i] \in Range(NUMERIC_FEATURE_NAMES \o <<TARGET_FEATURE_NAME>>)
        THEN [dtype |-> "int32", default |-> 0]
        ELSE [dtype |-> "string", default |-> "NA"]]

NUM_CLASSES == Len(TARGET_FEATURE_LABELS)

----------------------------------------------------------------------------
(* get_dataset_from_csv.                                                   *)

batch_size == 265
num_epochs == 1
hidden_units == <<32, 32>>

\* one field parsed to its column's type; an empty field gives the default
ParseField(field, column_default) ==
    IF column_default.dtype = "string"
    THEN (IF field = "" THEN column_default.default ELSE field)
    ELSE (IF field = <<>> THEN column_default.default ELSE ParseInt(field))

\* one CSV line parsed with column_names, column_defaults and label_name:
\* the features keyed by column name, and the label
ParseLine(line, column_names, column_defaults, label_name) ==
    LET value(c) == ParseField(line[c], column_defaults[c])
        names == Range(column_names) \ {label_name}
    IN  [features |-> [n \in names |-> value(IndexOf(column_names, n))],
         target   |-> value(IndexOf(column_names, label_name))]

\* the lines of a file that hold records, the header line skipped
RecordLines(lines, header) == IF header THEN Tail(lines) ELSE lines

\* dataset.batch(b): consecutive batches, the last one possibly smaller
RECURSIVE Batch(_, _)
Batch(s, b) ==
    IF s = <<>> THEN <<>>
    ELSE IF Len(s) <= b THEN <<s>>
    ELSE <<SubSeq(s, 1, b)>> \o Batch(SubSeq(s, b + 1, Len(s)), b)

\* the dataset object: nothing is read before it is iterated
CsvDataset(csv_file_path, size, shuffle) ==
    [path |-> csv_file_path, batch_size |-> size, column_names |-> CSV_HEADER,
     column_defaults |-> COLUMN_DEFAULTS, label_name |-> TARGET_FEATURE_NAME,
     num_epochs |-> num_epochs, header |-> TRUE, shuffle |-> shuffle]

NoDataset ==
    [path |-> "", batch_size |-> 0, column_names |-> <<>>, column_defaults |-> <<>>,
     label_name |-> "", num_epochs |-> 0, header |-> FALSE, shuffle |-> FALSE]

\* the elements of one epoch over a file's lines, in file order
Elements(ds, lines) ==
    LET recs == RecordLines(lines, ds.header)
    IN  [i \in DOMAIN recs |->
            ParseLine(recs[i], ds.column_names, ds.column_defaults, ds.label_name)]

\* the passes over the data: the batches of every epoch, drawn in the order p
\* when the dataset shuffles and in file order when it does not
Passes(ds, lines, p) ==
    LET e == Elements(ds, lines)
        o == IF ds.shuffle THEN [i \in DOMAIN e |-> e[p[i]]] ELSE e
    IN  Concat([k \in 1..ds.num_epochs |-> Batch(o, ds.batch_size)])

----------------------------------------------------------------------------
(* The models: inputs, encoded features and the layers on top of them.     *)

\* mutant: one Input per column of the CSV header, the target included
CreateModelInputsAllColumns(feature_names) ==
    [i \in DOMAIN CSV_HEADER |->
        [name  |-> CSV_HEADER[i],
         dtype |-> IF CSV_HEADER[i] \in Range(NUMERIC_FEATURE_NAMES)
                   THEN "float32" ELSE "string"]]

\* create_model_inputs(): one Input per feature name, in FEATURE_NAMES order
CreateModelInputs(feature_names) ==
    [i \in DOMAIN feature_names |->
        [name  |-> feature_names[i],
         dtype |-> IF feature_names[i] \in Range(NUMERIC_FEATURE_NAMES)
                   THEN "float32" ELSE "string"]]

\* int(math.sqrt(n))
ISqrt(n) == CHOOSE k \in 0..n : k * k <= n /\ (k + 1) * (k + 1) > n

num_oov_indices == 0

\* encode_inputs of one feature: the layers it goes through and the width
\* of what comes out
EncodeFeature(feature_name, vocab_dict, use_embedding) ==
    IF feature_name \in Range(Keys(vocab_dict))
    THEN LET vocabulary == Get(vocab_dict, feature_name)
         IN  IF use_embedding
             THEN [feature |-> feature_name, op |-> "lookup_int_embedding",
                   vocabulary |-> vocabulary,
                   input_dim |-> Len(vocabulary),
                   width |-> ISqrt(Len(vocabulary))]
             ELSE [feature |-> feature_name, op |-> "lookup_binary",
                   vocabulary |-> vocabulary,
                   input_dim |-> Len(vocabulary) + num_oov_indices,
                   width |-> Len(vocabulary) + num_oov_indices]
    ELSE [feature |-> feature_name, op |-> "expand_dims",
          vocabulary |-> <<>>, input_dim |-> 0, width |-> 1]

\* encode_inputs(inputs, use_embedding): the encoded features, concatenated
\* in the order of the inputs
EncodeInputs(inputs, vocab_dict, use_embedding) ==
    [i \in DOMAIN inputs |-> EncodeFeature(inputs[i].name, vocab_dict, use_embedding)]

\* mutant: the position counted from 1
LookupIndexFromOne(vocabulary, v) ==
    IF v \in Range(vocabulary)
    THEN num_oov_indices + IndexOf(vocabulary, v)
    ELSE -1

\* the index StringLookup gives a value: its position in the vocabulary
\* after the out-of-vocabulary slots; -1 stands for the lookup's error
LookupIndex(vocabulary, v) ==
    IF v \in Range(vocabulary)
    THEN num_oov_indices + IndexOf(vocabulary, v) - 1
    ELSE -1

\* Dense, BatchNormalization, ReLU, Dropout for every entry of hidden_units
HiddenLayers(units) ==
    Concat([i \in DOMAIN units |->
              << [layer |-> "Dense", units |-> units[i]],
                 [layer |-> "BatchNormalization", units |-> units[i]],
                 [layer |-> "ReLU", units |-> units[i]],
                 [layer |-> "Dropout", units |-> units[i]] >>])

\* the width of the concatenated encoded features
RECURSIVE Width(_)
Width(fs) == IF fs = <<>> THEN 0 ELSE Head(fs).width + Width(Tail(fs))

\* the width of an elementwise operation on tensors of widths a and b; -1
\* stands for shapes that do not broadcast
Broadcast(a, b) ==
    IF a = b THEN a ELSE IF a = 1 THEN b ELSE IF b = 1 THEN a ELSE -1

\* one pass of the loop body when x0 is w0 wide and cross is w wide:
\* units = cross.shape[-1]; x = Dense(units)(cross); cross = x0 * x + cross
CrossStepLayers(w0, w) ==
    << [layer |-> "Dense", units |-> w],
       [layer |-> "MultiplyAdd", units |-> Broadcast(Broadcast(w0, w), w)] >>

\* "for _ in hidden_units": n passes, each one starting from the width the
\* pass before it left
RECURSIVE CrossLoop(_, _, _)
CrossLoop(w0, w, n) ==
    IF n = 0 THEN <<>>
    ELSE LET step == CrossStepLayers(w0, w)
         IN  step \o CrossLoop(w0, step[2].units, n - 1)

\* the cross part: cross = x0, the loop over hidden_units, then
\* BatchNormalization
CrossLayers(x0, units) ==
    CrossLoop(Width(x0), Width(x0), Len(units))
        \o <<[layer |-> "BatchNormalization", units |-> 0]>>

----------------------------------------------------------------------------
(* What the cross part computes.  A tensor is a sequence of polynomials in *)
(* the entries of x0, one per position; the kernels and biases of the      *)
(* Dense layers are free parameters, so a polynomial is the set of its     *)
(* monomials and a monomial the ascending tuple of the x0 positions it     *)
(* multiplies (<<>> is the constant monomial).                             *)

\* the monomial m times the entry i of x0
TimesEntry(i, m) ==
    LET k == Cardinality({j \in DOMAIN m : m[j] <= i})
    IN  SubSeq(m, 1, k) \o <<i>> \o SubSeq(m, k + 1, Len(m))

\* the product of two monomials
RECURSIVE TimesMonomial(_, _)
TimesMonomial(a, b) ==
    IF a = <<>> THEN b ELSE TimesMonomial(Tail(a), TimesEntry(Head(a), b))

\* x0 itself: position i holds the entry i
InputTensor(w) == [i \in 1..w |-> {<<i>>}]

\* layers.Dense(units)(cross): every output is a weighted sum of all the
\* entries of cross plus a bias
DenseTensor(cross, units) ==
    [i \in 1..units |-> UNION Range(cross) \cup {<<>>}]

\* mutant: x + cross, the product with x0 forgotten
AddTensor(x0, x, cross) ==
    [i \in DOMAIN cross |-> x[i] \cup cross[i]]

\* x0 * x + cross, position by position
MultiplyAddTensor(x0, x, cross) ==
    [i \in DOMAIN cross |->
        {TimesMonomial(a, b) : a \in x0[i], b \in x[i]} \cup cross[i]]

\* the values cross takes: x0 before the loop, then the value after each
\* pass of the loop that the layers describe
RECURSIVE CrossValues(_, _, _)
CrossValues(x0, cross, layers) ==
    IF layers = <<>> \/ Head(layers).layer # "Dense" THEN <<cross>>
    ELSE LET x == DenseTensor(cross, layers[1].units)
         IN  <<cross>> \o CrossValues(x0, MultiplyAddTensor(x0, x, cross),
                                      SubSeq(layers, 3, Len(layers)))

ModelKinds == <<"baseline", "wide_and_deep", "deep_and_cross">>

NoPart == [features |-> <<>>, layers |-> <<>>]

NoModel ==
    [kind |-> "none", inputs |-> <<>>, wide |-> NoPart, deep |-> NoPart,
     cross |-> NoPart, output_units |-> 0, compiled |-> FALSE, fitted |-> FALSE]

create_baseline_model(feature_names, vocab_dict) ==
    LET inputs == CreateModelInputs(feature_names)
    IN  [kind |-> "baseline", inputs |-> inputs,
         wide |-> NoPart,
         deep |-> [features |-> EncodeInputs(inputs, vocab_dict, FALSE),
                   layers |-> HiddenLayers(hidden_units)],
         cross |-> NoPart,
         output_units |-> NUM_CLASSES, compiled |-> FALSE, fitted |-> FALSE]

create_wide_and_deep_model(feature_names, vocab_dict) ==
    LET inputs == CreateModelInputs(feature_names)
    IN  [kind |-> "wide_and_deep", inputs |-> inputs,
         wide |-> [features |-> EncodeInputs(inputs, vocab_dict, FALSE),
                   layers |-> <<[layer |-> "BatchNormalization", units |-> 0]>>],
         deep |-> [features |-> EncodeInputs(inputs, vocab_dict, TRUE),
                   layers |-> HiddenLayers(hidden_units)],
         cross |-> NoPart,
         output_units |-> NUM_CLASSES, compiled |-> FALSE, fitted |-> FALSE]

create_deep_and_cross_model(feature_names, vocab_dict) ==
    LET inputs == CreateModelInputs(feature_names)
        x0 == EncodeInputs(inputs, vocab_dict, TRUE)
    IN  [kind |-> "deep_and_cross", inputs |-> inputs,
         wide |-> NoPart,
         deep |-> [features |-> x0, layers |-> HiddenLayers(hidden_units)],
         cross |-> [features |-> x0, layers |-> CrossLayers(x0, hidden_units)],
         output_units |-> NUM_CLASSES, compiled |-> FALSE, fitted |-> FALSE]

CreateModel(kind, feature_names, vocab_dict) ==
    IF kind = "baseline" THEN create_baseline_model(feature_names, vocab_dict)
    ELSE IF kind = "wide_and_deep"
         THEN create_wide_and_deep_model(feature_names, vocab_dict)
         ELSE create_deep_and_cross_model(feature_names, vocab_dict)

\* round(accuracy * 100, 2) of the accuracy num/den, in hundredths of a
\* percent, ties to the even neighbour
RoundPercent(acc) ==
    LET n == 10000 * acc.num
        q == n \div acc.den
        r == n % acc.den
    IN  IF 2 * r < acc.den THEN q
        ELSE IF 2 * r > acc.den THEN q + 1
        ELSE IF q % 2 = 0 THEN q ELSE q + 1

NoAccuracy == [num |-> 0, den |-> 0]

----------------------------------------------------------------------------
VARIABLES
    pc,            \* the cell or statement the notebook has reached
    raw_data,      \* the downloaded table
    data,          \* the reshaped table
    groups,        \* the groups the split loop has still to visit
    train_splits, test_splits,
    train_data, test_data,
    files,         \* the lines of train_data.csv and test_data.csv
    CATEGORICAL_FEATURES_WITH_VOCABULARY,
    experiment,    \* the position in ModelKinds of the current experiment
    model,         \* the model of the current experiment
    train_dataset, test_dataset,
    fit_input,     \* the batches model.fit has consumed
    eval_input,    \* the batches model.evaluate has consumed
    accuracy,      \* the accuracy model.evaluate returned
    output         \* the "Test accuracy" lines printed so far

prepVars == <<raw_data, data, groups, train_splits, test_splits, train_data, test_data>>
metaVars == <<files, CATEGORICAL_FEATURES_WITH_VOCABULARY>>
runVars == <<train_dataset, test_dataset, fit_input, eval_input, accuracy>>
expVars == <<experiment, model, output>>

vars == <<pc, prepVars, metaVars, runVars, expVars>>

CATEGORICAL_FEATURE_NAMES == Keys(CATEGORICAL_FEATURES_WITH_VOCABULARY)
FEATURE_NAMES == NUMERIC_FEATURE_NAMES \o CATEGORICAL_FEATURE_NAMES

Init ==
    /\ pc = "start"
    /\ raw_data = NoFrame
    /\ data = NoFrame
    /\ groups = <<>>
    /\ train_splits = <<>>
    /\ test_splits = <<>>
    /\ train_data = NoFrame
    /\ test_data = NoFrame
    /\ files = [f \in FileNames |-> <<>>]
    /\ CATEGORICAL_FEATURES_WITH_VOCABULARY = <<>>
    /\ experiment = 0
    /\ model = NoModel
    /\ train_dataset = NoDataset
    /\ test_dataset = NoDataset
    /\ fit_input = <<>>
    /\ eval_input = <<>>
    /\ accuracy = NoAccuracy
    /\ output = <<>>

\* raw_data = pd.read_csv(data_url, header=None)
Download ==
    /\ pc = "start"
    /\ \E table \in RawTables : raw_data' = ReadCsvUrl(table)
    /\ pc' = "downloaded"
    /\ UNCHANGED <<data, groups, train_splits, test_splits, train_data, test_data>>
    /\ UNCHANGED <<metaVars, runVars, expVars>>

\* the download or the parse raises
DownloadFails ==
    /\ pc = "start"
    /\ pc' = "failed"
    /\ UNCHANGED <<prepVars, metaVars, runVars, expVars>>

\* the reshaping cell
Reshape ==
    /\ pc = "downloaded"
    /\ \A i \in DOMAIN raw_data.rows : RowConvertible(raw_data.rows[i])
    /\ data' = ReshapedData(raw_data)
    /\ pc' = "reshaped"
    /\ UNCHANGED <<raw_data, groups, train_splits, test_splits, train_data, test_data>>
    /\ UNCHANGED <<metaVars, runVars, expVars>>

\* mutant: the IndexError is caught and the records that raised are dropped
ReshapeSkipsRecords ==
    /\ pc = "downloaded"
    /\ \E i \in DOMAIN raw_data.rows : ~RowConvertible(raw_data.rows[i])
    /\ data' = ReshapedData(Select(raw_data,
                   [i \in DOMAIN raw_data.rows |-> RowConvertible(raw_data.rows[i])]))
    /\ pc' = "reshaped"
    /\ UNCHANGED <<raw_data, groups, train_splits, test_splits, train_data, test_data>>
    /\ UNCHANGED <<metaVars, runVars, expVars>>

\* a row without a nonzero flag: nonzero()[0][0] raises IndexError
ReshapeFails ==
    /\ pc = "downloaded"
    /\ \E i \in DOMAIN raw_data.rows : ~RowConvertible(raw_data.rows[i])
    /\ pc' = "failed"
    /\ UNCHANGED <<prepVars, metaVars, runVars, expVars>>

\* train_splits = []; test_splits = []; the groupby iterator is created
SplitBegin ==
    /\ pc = "reshaped"
    /\ train_splits' = <<>>
    /\ test_splits' = <<>>
    /\ groups' = GroupBy(data, TARGET_FEATURE_NAME)
    /\ pc' = "splitting"
    /\ UNCHANGED <<raw_data, data, train_data, test_data>>
    /\ UNCHANGED <<metaVars, runVars, expVars>>

\* one iteration of the loop over the groups
SplitGroup ==
    /\ pc = "splitting"
    /\ groups # <<>>
    /\ LET group_data == Head(groups)
       IN  \E draws \in [DOMAIN group_data.rows -> RandDraws] :
             LET random_selection ==
                     [i \in DOMAIN draws |-> draws[i] <= SplitThreshold]
                 inverted == [i \in DOMAIN draws |-> ~random_selection[i]]
             IN  /\ train_splits' =
                        Append(train_splits, Select(group_data, random_selection))
                 /\ test_splits' =
                        Append(test_splits, Select(group_data, inverted))
    /\ groups' = Tail(groups)
    /\ UNCHANGED <<pc, raw_data, data, train_data, test_data>>
    /\ UNCHANGED <<metaVars, runVars, expVars>>

\* pd.concat(...).sample(frac=1).reset_index(drop=True), for both lists
SplitEnd ==
    /\ pc = "splitting"
    /\ groups = <<>>
    /\ LET tr == ConcatFrames(train_splits)
           te == ConcatFrames(test_splits)
       IN  \E p \in Orders(Len(tr.rows)), q \in Orders(Len(te.rows)) :
             /\ train_data' = ResetIndex(Sample(tr, p))
             /\ test_data' = ResetIndex(Sample(te, q))
    /\ pc' = "split"
    /\ UNCHANGED <<raw_data, data, groups, train_splits, test_splits>>
    /\ UNCHANGED <<metaVars, runVars, expVars>>

\* train_data.to_csv(train_data_file, index=False), and the same for test
WriteFiles ==
    /\ pc = "split"
    /\ files' = [files EXCEPT ![train_data_file] = ToCsv(train_data),
                              ![test_data_file] = ToCsv(test_data)]
    /\ pc' = "written"
    /\ UNCHANGED <<prepVars, CATEGORICAL_FEATURES_WITH_VOCABULARY, runVars, expVars>>

\* mutant: the vocabularies taken from the training table only
DefineMetadataFromTrain ==
    /\ pc = "written"
    /\ CATEGORICAL_FEATURES_WITH_VOCABULARY' = VocabularyDict(train_data)
    /\ pc' = "metadata"
    /\ UNCHANGED <<prepVars, files, runVars, expVars>>

\* the metadata cell
DefineMetadata ==
    /\ pc = "written"
    /\ CATEGORICAL_FEATURES_WITH_VOCABULARY' = VocabularyDict(data)
    /\ pc' = "metadata"
    /\ UNCHANGED <<prepVars, files, runVars, expVars>>

\* the cell "<kind>_model = create_<kind>_model()" of the next experiment;
\* the locals of the run_experiment call before it are gone
BuildModel ==
    /\ pc \in {"metadata", "printed"}
    /\ experiment < Len(ModelKinds)
    /\ experiment' = experiment + 1
    /\ model' = CreateModel(ModelKinds[experiment + 1], FEATURE_NAMES,
                            CATEGORICAL_FEATURES_WITH_VOCABULARY)
    /\ train_dataset' = NoDataset
    /\ test_dataset' = NoDataset
    /\ fit_input' = <<>>
    /\ eval_input' = <<>>
    /\ accuracy' = NoAccuracy
    /\ pc' = "built"
    /\ UNCHANGED <<prepVars, metaVars, output>>

\* run_experiment(model): model.compile(...)
Compile ==
    /\ pc = "built"
    /\ model' = [model EXCEPT !.compiled = TRUE]
    /\ pc' = "compiled"
    /\ UNCHANGED <<prepVars, metaVars, runVars, experiment, output>>

\* mutant: the training dataset created before the model is compiled
GetTrainDatasetEarly ==
    /\ pc \in {"built", "compiled"}
    /\ train_dataset' = CsvDataset(train_data_file, batch_size, TRUE)
    /\ pc' = IF pc = "built" THEN "built" ELSE "train_dataset"
    /\ UNCHANGED <<prepVars, metaVars, expVars>>
    /\ UNCHANGED <<test_dataset, fit_input, eval_input, accuracy>>

\* train_dataset = get_dataset_from_csv(train_data_file, batch_size, shuffle=True)
GetTrainDataset ==
    /\ pc = "compiled"
    /\ train_dataset' = CsvDataset(train_data_file, batch_size, TRUE)
    /\ pc' = "train_dataset"
    /\ UNCHANGED <<prepVars, metaVars, expVars>>
    /\ UNCHANGED <<test_dataset, fit_input, eval_input, accuracy>>

\* mutant: the test dataset read from the train file
GetTestDatasetFromTrain ==
    /\ pc = "train_dataset"
    /\ test_dataset' = CsvDataset(train_data_file, batch_size, FALSE)
    /\ pc' = "datasets"
    /\ UNCHANGED <<prepVars, metaVars, expVars>>
    /\ UNCHANGED <<train_dataset, fit_input, eval_input, accuracy>>

\* test_dataset = get_dataset_from_csv(test_data_file, batch_size)
GetTestDataset ==
    /\ pc = "train_dataset"
    /\ test_dataset' = CsvDataset(test_data_file, batch_size, FALSE)
    /\ pc' = "datasets"
    /\ UNCHANGED <<prepVars, metaVars, expVars>>
    /\ UNCHANGED <<train_dataset, fit_input, eval_input, accuracy>>

\* history = model.fit(train_dataset, epochs=num_epochs)
Fit ==
    /\ pc = "datasets"
    /\ LET lines == files[train_dataset.path]
       IN  \E p \in Orders(Len(RecordLines(lines, train_dataset.header))) :
             fit_input' = Passes(train_dataset, lines, p)
    /\ model' = [model EXCEPT !.fitted = TRUE]
    /\ pc' = "fitted"
    /\ UNCHANGED <<prepVars, metaVars, experiment, output>>
    /\ UNCHANGED <<train_dataset, test_dataset, eval_input, accuracy>>

\* fit on a dataset without any batch: depending on the library version the
\* call raises, or returns without a training step (Fit above)
FitFails ==
    /\ pc = "datasets"
    /\ RecordLines(files[train_dataset.path], train_dataset.header) = <<>>
    /\ pc' = "failed"
    /\ UNCHANGED <<prepVars, metaVars, runVars, expVars>>

\* _, accuracy = model.evaluate(test_dataset, verbose=0)
Evaluate ==
    /\ pc = "fitted"
    /\ LET lines == files[test_dataset.path]
           n == Len(RecordLines(lines, test_dataset.header))
       IN  /\ \E p \in Orders(n) : eval_input' = Passes(test_dataset, lines, p)
           /\ \E correct \in 0..n :
                accuracy' = [num |-> correct, den |-> IF n = 0 THEN 1 ELSE n]
    /\ pc' = "evaluated"
    /\ UNCHANGED <<prepVars, metaVars, expVars>>
    /\ UNCHANGED <<train_dataset, test_dataset, fit_input>>

\* evaluate on a dataset without any batch: raises, or returns 0.0 (Evaluate)
EvaluateFails ==
    /\ pc = "fitted"
    /\ RecordLines(files[test_dataset.path], test_dataset.header) = <<>>
    /\ pc' = "failed"
    /\ UNCHANGED <<prepVars, metaVars, runVars, expVars>>

\* print(f"Test accuracy: {round(accuracy * 100, 2)}%")
PrintAccuracy ==
    /\ pc = "evaluated"
    /\ output' = Append(output, RoundPercent(accuracy))
    /\ pc' = "printed"
    /\ UNCHANGED <<prepVars, metaVars, runVars, experiment, model>>

Next ==
    \/ Download
    \/ DownloadFails
    \/ Reshape
    \/ ReshapeFails
    \/ SplitBegin
    \/ SplitGroup
    \/ SplitEnd
    \/ WriteFiles
    \/ DefineMetadata
    \/ BuildModel
    \/ Compile
    \/ GetTrainDataset
    \/ GetTestDataset
    \/ Fit
    \/ FitFails
    \/ Evaluate
    \/ EvaluateFails
    \/ PrintAccuracy

Spec == Init /\ [][Next]_vars

----------------------------------------------------------------------------
(* Properties.                                                             *)

\* the bag of the entries of a sequence
BagOfSeq(s) == [v \in Range(s) |-> Cardinality({i \in DOMAIN s : s[i] = v})]

\* the records of a sequence of batches
Flatten(batches) == Concat(batches)

\* the dataset element a row of a 13-column table stands for
ElementOfRow(row) ==
    [features |-> [n \in Range(CSV_HEADER) \ {TARGET_FEATURE_NAME} |->
                      row[IndexOf(CSV_HEADER, n)]],
     target   |-> row[IndexOf(CSV_HEADER, TARGET_FEATURE_NAME)]]

\* the names a reshaped record can carry
AreaNames == {"area_type_1", "area_type_2", "area_type_3", "area_type_4"}
SoilNames == {"soil_type_" \o ToString(k) : k \in 1..40}

\* C1: reshaping maps every 55-column raw record to exactly one 13-column
\* record: the reshaped table has the rows of the raw table, one for one, and
\* the 13 columns of CSV_HEADER in order; the ten numeric columns are the raw
\* columns 0..9 unchanged, then come Wilderness_Area, Soil_Type and
\* Cover_Type (12 features and 1 target).
C1_ReshapeShape ==
    Defined(data) =>
        /\ Len(raw_data.columns) = 55
        /\ data.columns = CSV_HEADER
        /\ Len(data.columns) = 13
        /\ SubSeq(data.columns, 11, 13) = <<"Wilderness_Area", "Soil_Type", "Cover_Type">>
        /\ Cardinality(Range(data.columns) \ {"Cover_Type"}) = 12
        /\ Len(data.rows) = Len(raw_data.rows)
        /\ data.index = raw_data.index
        /\ \A i \in DOMAIN data.rows :
             /\ Len(raw_data.rows[i]) = 55
             /\ Len(data.rows[i]) = 13
             /\ \A c \in 0..9 : data.rows[i][c + 1] = raw_data.rows[i][c + 1]
             /\ data.rows[i][11] \in AreaNames
             /\ data.rows[i][12] \in SoilNames
             /\ data.rows[i][13] \in Int

C1_Witness ==
    /\ Defined(data)
    /\ Len(data.rows) >= 2
    /\ data.rows[1] # data.rows[2]

\* C2: after reshaping Cover_Type is the raw label (raw column 54) minus 1,
\* so a raw label in 1..7 is stored as an integer in 0..6, strictly below
\* NUM_CLASSES = 7, the number of units of every model's softmax output.
C2_LabelsRemapped ==
    /\ NUM_CLASSES = 7
    /\ Defined(data) =>
         \A i \in DOMAIN data.rows :
            LET raw == raw_data.rows[i][54 + 1]
                stored == Cell(data, data.rows[i], "Cover_Type")
            IN  /\ stored = raw - 1
                /\ raw \in 1..7 => stored \in 0..6 /\ stored < NUM_CLASSES
    /\ model # NoModel => model.output_units = NUM_CLASSES

C2_Witness ==
    /\ model.kind = "deep_and_cross"
    /\ \E i \in DOMAIN data.rows : Cell(data, data.rows[i], "Cover_Type") = 6
    /\ \E i \in DOMAIN data.rows : Cell(data, data.rows[i], "Cover_Type") = 1

\* the index labels of the k-th pair of splits
SplitIndex(k) == Range(train_splits[k].index) \cup Range(test_splits[k].index)

\* C3: the split is a partition of the reshaped data.  Every group's
\* selection puts each record of the group in exactly one of the two splits,
\* unchanged; each pair of splits holds the records of one Cover_Type and all
\* of them; and after concat, sample(frac=1) and reset_index, train_data and
\* test_data together hold the records of data, each as often as data does.
C3_SplitPartition ==
    /\ Len(train_splits) = Len(test_splits)
    /\ \A k \in DOMAIN train_splits :
         LET tr == train_splits[k]
             te == test_splits[k]
         IN  /\ Range(tr.index) \cap Range(te.index) = {}
             /\ Cardinality(Range(tr.index)) = Len(tr.rows)
             /\ Cardinality(Range(te.index)) = Len(te.rows)
             /\ \A j \in DOMAIN tr.rows : tr.rows[j] = data.rows[tr.index[j] + 1]
             /\ \A j \in DOMAIN te.rows : te.rows[j] = data.rows[te.index[j] + 1]
             /\ \E label \in Range(Column(data, "Cover_Type")) :
                  SplitIndex(k) =
                     {data.index[i] : i \in
                        {j \in DOMAIN data.rows : data.rows[j][13] = label}}
             /\ \A l \in DOMAIN train_splits : l # k => SplitIndex(l) \cap SplitIndex(k) = {}
    /\ (pc = "splitting" /\ groups = <<>>) =>
         UNION {SplitIndex(k) : k \in DOMAIN train_splits} = Range(data.index)
    /\ Defined(train_data) =>
         /\ Defined(test_data)
         /\ BagOfSeq(train_data.rows) (+) BagOfSeq(test_data.rows) = BagOfSeq(data.rows)
         /\ Len(train_data.rows) + Len(test_data.rows) = Len(data.rows)
         /\ train_data.columns = data.columns
         /\ test_data.columns = data.columns
         /\ train_data.index = [i \in DOMAIN train_data.rows |-> i - 1]
         /\ test_data.index = [i \in DOMAIN test_data.rows |-> i - 1]

C3_Witness ==
    /\ Defined(train_data)
    /\ Len(train_data.rows) = 1
    /\ Len(test_data.rows) = 1
    /\ train_data.rows[1][13] = test_data.rows[1][13]
    /\ train_data.rows[1] # test_data.rows[1]

\* the 0-based positions of the nonzero entries among the raw columns a..b
FlagPositions(row, a, b) == {k \in 0..(b - a) : row[a + k + 1] # 0}

\* the two value lists name every flag position, each with a name of its own
DistinctPositionsDistinctValues ==
    /\ Len(soil_type_values) = 40
    /\ Len(wilderness_area_values) = 4
    /\ \A a, b \in DOMAIN soil_type_values :
          a # b => soil_type_values[a] # soil_type_values[b]
    /\ \A a, b \in DOMAIN wilderness_area_values :
          a # b => wilderness_area_values[a] # wilderness_area_values[b]

\* C8: a raw record whose 40 soil flags (raw columns 14..53) have exactly one
\* nonzero entry, at 0-based position k, gets Soil_Type soil_type_{k+1}; one
\* whose 4 wilderness flags (raw columns 10..13) have exactly one nonzero
\* entry at position j gets Wilderness_Area area_type_{j+1}; distinct
\* positions give distinct values.
C8_SingleFlagValue ==
    /\ Defined(data) =>
         \A i \in DOMAIN data.rows :
            LET soil == FlagPositions(raw_data.rows[i], 14, 53)
                wild == FlagPositions(raw_data.rows[i], 10, 13)
            IN  /\ Cardinality(soil) = 1 =>
                     \A k \in soil :
                        Cell(data, data.rows[i], "Soil_Type")
                            = "soil_type_" \o ToString(k + 1)
                /\ Cardinality(wild) = 1 =>
                     \A j \in wild :
                        Cell(data, data.rows[i], "Wilderness_Area")
                            = "area_type_" \o ToString(j + 1)
    /\ Defined(data) => DistinctPositionsDistinctValues

C8_Witness ==
    /\ Defined(data)
    /\ \E i \in DOMAIN data.rows :
         /\ FlagPositions(raw_data.rows[i], 14, 53) = {39}
         /\ FlagPositions(raw_data.rows[i], 10, 13) = {3}
         /\ data.rows[i][12] = "soil_type_40"
         /\ data.rows[i][11] = "area_type_4"

VocabularyDefined == CATEGORICAL_FEATURES_WITH_VOCABULARY # <<>>

\* the distinct values of the column name in the table df
ValuesIn(df, name) == {df.rows[i][IndexOf(CSV_HEADER, name)] : i \in DOMAIN df.rows}

\* C4 as claimed: each categorical feature's vocabulary is exactly the set
\* of distinct values of that feature in the training records, and it is
\* never changed after it is computed.
C4_VocabularyFromTraining ==
    /\ [](VocabularyDefined =>
            /\ Keys(CATEGORICAL_FEATURES_WITH_VOCABULARY) = <<"Soil_Type", "Wilderness_Area">>
            /\ \A k \in DOMAIN CATEGORICAL_FEATURES_WITH_VOCABULARY :
                 LET e == CATEGORICAL_FEATURES_WITH_VOCABULARY[k]
                 IN  Range(e.vocabulary) = ValuesIn(train_data, e.name))
    /\ [][VocabularyDefined =>
            CATEGORICAL_FEATURES_WITH_VOCABULARY' = CATEGORICAL_FEATURES_WITH_VOCABULARY]_vars

\* C4 as amended: each categorical feature's vocabulary is exactly the set
\* of distinct values of that feature in the whole reshaped table data (the
\* training and the test records together), each value listed once, and it
\* is never changed after it is computed.
C4_VocabularyFromData ==
    /\ [](VocabularyDefined =>
            /\ Keys(CATEGORICAL_FEATURES_WITH_VOCABULARY) = <<"Soil_Type", "Wilderness_Area">>
            /\ \A k \in DOMAIN CATEGORICAL_FEATURES_WITH_VOCABULARY :
                 LET e == CATEGORICAL_FEATURES_WITH_VOCABULARY[k]
                 IN  /\ Range(e.vocabulary) = ValuesIn(data, e.name)
                     /\ Cardinality(Range(e.vocabulary)) = Len(e.vocabulary)
                     /\ Range(e.vocabulary) =
                          ValuesIn(train_data, e.name) \cup ValuesIn(test_data, e.name))
    /\ [][VocabularyDefined =>
            CATEGORICAL_FEATURES_WITH_VOCABULARY' = CATEGORICAL_FEATURES_WITH_VOCABULARY]_vars

\* a vocabulary holds a value that no training record has, and the notebook
\* has gone on to the last experiment with it
C4_Witness ==
    /\ VocabularyDefined
    /\ experiment = 3
    /\ pc = "printed"
    /\ \E k \in DOMAIN CATEGORICAL_FEATURES_WITH_VOCABULARY :
         LET e == CATEGORICAL_FEATURES_WITH_VOCABULARY[k]
         IN  Range(e.vocabulary) \ ValuesIn(train_data, e.name) # {}

\* the encoded features of the model that look a string up
Lookups ==
    {f \in Range(model.wide.features) \cup Range(model.deep.features)
            \cup Range(model.cross.features) : f.op # "expand_dims"}

\* C5: every Soil_Type and Wilderness_Area value of every record of the
\* train file and of the test file is in that feature's vocabulary, so the
\* string lookup (no mask token, num_oov_indices = 0) gives it an index in
\* 0..len(vocabulary)-1, a valid row of the Embedding and a valid position of
\* the one-hot vector, for every record fit and evaluate consume.
C5_NoUnseenValue ==
    /\ num_oov_indices = 0
    /\ VocabularyDefined =>
         \A f \in FileNames : \A i \in DOMAIN files[f] :
            i > 1 =>
              \A k \in DOMAIN CATEGORICAL_FEATURES_WITH_VOCABULARY :
                 LET e == CATEGORICAL_FEATURES_WITH_VOCABULARY[k]
                     v == files[f][i][IndexOf(CSV_HEADER, e.name)]
                 IN  /\ v \in Range(e.vocabulary)
                     /\ LookupIndex(e.vocabulary, v) \in 0..(Len(e.vocabulary) - 1)
    /\ \A l \in Lookups :
         /\ l.input_dim = Len(l.vocabulary)
         /\ l.op = "lookup_binary" => l.width = Len(l.vocabulary)
         /\ \A x \in Range(Flatten(fit_input)) \cup Range(Flatten(eval_input)) :
              /\ x.features[l.feature] \in Range(l.vocabulary)
              /\ LookupIndex(l.vocabulary, x.features[l.feature]) \in 0..(l.input_dim - 1)

\* a test record with a value no training record has was evaluated by a
\* model with embeddings
C5_Witness ==
    /\ pc = "evaluated"
    /\ model.kind = "wide_and_deep"
    /\ Flatten(fit_input) # <<>>
    /\ \E x \in Range(Flatten(eval_input)) :
         /\ x.features["Soil_Type"] \notin ValuesIn(train_data, "Soil_Type")
         /\ LookupIndex(Get(CATEGORICAL_FEATURES_WITH_VOCABULARY, "Soil_Type"),
                        x.features["Soil_Type"]) = 1

\* what each pipeline step leaves behind once it has finished
Downloaded == Defined(raw_data)
Reshaped == Defined(data)
SplitDone == Defined(train_data) /\ Defined(test_data)
Written == \A f \in FileNames : files[f] # <<>>
DatasetCreated == train_dataset # NoDataset \/ test_dataset # NoDataset
DatasetsCreated == train_dataset # NoDataset /\ test_dataset # NoDataset
Built == model # NoModel
Compiled == model.compiled
Fitted == model.fitted
Evaluated == accuracy # NoAccuracy

\* C6 as claimed: in every experiment the steps run in the order download,
\* reshape, split, write the files, read CSV into a batched dataset, build
\* the model, compile, fit, evaluate: a step has run only if the one before
\* it in this order has.
C6_OrderAsClaimed ==
    /\ Reshaped => Downloaded
    /\ SplitDone => Reshaped
    /\ Written => SplitDone
    /\ DatasetCreated => Written
    /\ Built => DatasetsCreated
    /\ Compiled => Built
    /\ Fitted => Compiled
    /\ Evaluated => Fitted

\* C6 as amended: download, reshape, split and the writing of the two files
\* run once, in this order, before the first experiment; then every
\* experiment runs, in this order, build the model, compile, create the two
\* CSV datasets, fit, evaluate, and a step has run only if the one before it
\* has; the model is built and compiled before any dataset is created.
C6_OrderInCode ==
    /\ Reshaped => Downloaded
    /\ SplitDone => Reshaped
    /\ Written => SplitDone
    /\ VocabularyDefined => Written
    /\ Built => VocabularyDefined
    /\ Built <=> experiment >= 1
    /\ Compiled => Built
    /\ DatasetCreated => Compiled /\ train_dataset # NoDataset
    /\ Fitted => DatasetsCreated
    /\ fit_input # <<>> => Fitted
    /\ Evaluated => Fitted
    /\ eval_input # <<>> => Evaluated
    /\ Len(output) \in {experiment - 1, experiment} \cap Nat
    /\ Len(output) = experiment /\ experiment >= 1 => Evaluated

\* the third experiment has been run to its end
C6_Witness ==
    /\ experiment = 3
    /\ model.kind = "deep_and_cross"
    /\ Len(output) = 3
    /\ Evaluated /\ Fitted /\ DatasetsCreated /\ Compiled /\ Written

\* C7: in every call of run_experiment fit consumes the records of the train
\* file and only those, evaluate the records of the test file and only those,
\* each record of the file exactly once (one epoch), in file order for the
\* test file and in a drawn order for the train file; evaluate starts after
\* fit has returned; the printed accuracy is the one this evaluate returned;
\* and what fit and evaluate consumed together is the reshaped table, so no
\* test record is used for training.
C7_TrainOnTrainTestOnTest ==
    /\ train_dataset # NoDataset =>
         /\ train_dataset.path = "train_data.csv"
         /\ train_dataset.shuffle
         /\ train_dataset.num_epochs = 1
    /\ test_dataset # NoDataset =>
         /\ test_dataset.path = "test_data.csv"
         /\ ~test_dataset.shuffle
         /\ test_dataset.num_epochs = 1
    /\ Written =>
         /\ Len(files["train_data.csv"]) = Len(train_data.rows) + 1
         /\ Len(files["test_data.csv"]) = Len(test_data.rows) + 1
    /\ Fitted =>
         BagOfSeq(Flatten(fit_input))
            = BagOfSeq([i \in DOMAIN train_data.rows |-> ElementOfRow(train_data.rows[i])])
    /\ ~Fitted => fit_input = <<>>
    /\ Evaluated =>
         /\ Fitted
         /\ Flatten(eval_input)
              = [i \in DOMAIN test_data.rows |-> ElementOfRow(test_data.rows[i])]
         /\ BagOfSeq(Flatten(fit_input)) (+) BagOfSeq(Flatten(eval_input))
              = BagOfSeq([i \in DOMAIN data.rows |-> ElementOfRow(data.rows[i])])
         /\ accuracy.den = IF test_data.rows = <<>> THEN 1 ELSE Len(test_data.rows)
         /\ accuracy.num \in 0..Len(test_data.rows)
    /\ ~Evaluated => eval_input = <<>>
    /\ pc = "printed" =>
         /\ Evaluated
         /\ Len(output) = experiment
         /\ 2 * (output[experiment] * accuracy.den - 10000 * accuracy.num)
               \in (-accuracy.den)..accuracy.den

\* a run that trained on two records in another order than the file's, or
\* one that trained on one and evaluated on another, and printed 100.0
C7_Witness ==
    /\ pc = "printed"
    /\ experiment = 2
    /\ Flatten(fit_input) # <<>>
    /\ Flatten(eval_input) # <<>>
    /\ Flatten(fit_input)[1] # Flatten(eval_input)[1]
    /\ output[2] = 10000

\* the encoded feature of the given name among the encoded features fs
RepresentationOf(fs, name) == {[op |-> f.op, width |-> f.width] : f \in {g \in Range(fs) : g.feature = name}}

\* C9: in the Wide & Deep model each of the 12 features of FEATURE_NAMES has
\* an encoding in the wide part and an encoding in the deep part, and the two
\* differ.
C9_DifferentRepresentations ==
    model.kind = "wide_and_deep" =>
        /\ Len(FEATURE_NAMES) = 12
        /\ \A i \in DOMAIN FEATURE_NAMES :
             LET w == RepresentationOf(model.wide.features, FEATURE_NAMES[i])
                 d == RepresentationOf(model.deep.features, FEATURE_NAMES[i])
             IN  /\ Cardinality(w) = 1
                 /\ Cardinality(d) = 1
                 /\ w # d

InputNames == {model.inputs[i].name : i \in DOMAIN model.inputs}

\* COLUMN_DEFAULTS lines up with CSV_HEADER, position by position
DefaultsMatchHeader ==
    /\ Len(COLUMN_DEFAULTS) = Len(CSV_HEADER)
    /\ \A c \in DOMAIN CSV_HEADER :
          IF CSV_HEADER[c] \in {"Soil_Type", "Wilderness_Area"}
          THEN COLUMN_DEFAULTS[c].dtype = "string" /\ COLUMN_DEFAULTS[c].default = "NA"
          ELSE COLUMN_DEFAULTS[c].dtype = "int32" /\ COLUMN_DEFAULTS[c].default = 0

\* C10: create_model_inputs gives exactly one input per name of
\* FEATURE_NAMES: 12 inputs, float32 for the 10 numeric features, string for
\* the 2 categorical ones, none for the target; the input names are the
\* CSV_HEADER columns without Cover_Type and are the feature keys of every
\* dataset element; COLUMN_DEFAULTS has one entry per CSV_HEADER column, a
\* numeric default for the numeric and the target columns and "NA" for the
\* categorical ones.
C10_InputsMatchColumns ==
    Built =>
        /\ Len(model.inputs) = 12
        /\ Cardinality(InputNames) = 12
        /\ InputNames = Range(FEATURE_NAMES)
        /\ InputNames = Range(CSV_HEADER) \ {"Cover_Type"}
        /\ Cardinality({i \in DOMAIN model.inputs : model.inputs[i].dtype = "float32"}) = 10
        /\ \A i \in DOMAIN model.inputs :
             model.inputs[i].dtype =
                IF model.inputs[i].name \in {"Soil_Type", "Wilderness_Area"}
                THEN "string" ELSE "float32"
        /\ \A x \in Range(Flatten(fit_input)) \cup Range(Flatten(eval_input)) :
             DOMAIN x.features = InputNames
        /\ DefaultsMatchHeader

\* a model whose inputs were fed by the elements of both datasets
C10_Witness ==
    /\ Built
    /\ pc = "evaluated"
    /\ Flatten(fit_input) # <<>>
    /\ Flatten(eval_input) # <<>>
    /\ model.kind = "baseline"

\* the degree of a polynomial: the largest number of x0 entries one of its
\* monomials multiplies
Degree(poly) ==
    LET lens == {Len(m) : m \in poly}
    IN  CHOOSE d \in lens : \A e \in lens : e <= d

\* the widths x0 can have: the numeric features and the two embeddings, for
\* every size the two vocabularies can have
CrossWidths ==
    {Len(NUMERIC_FEATURE_NAMES) + ISqrt(a) + ISqrt(b) :
        a \in 1..NumSoilValues, b \in 1..NumAreaValues}

\* for every width of x0: the layers of the cross part, and the width and
\* the degree at every position of each value cross takes
CrossPart ==
    [w \in CrossWidths |->
        LET ls == CrossLayers(<<[width |-> w]>>, hidden_units)
            values == CrossValues(InputTensor(w), InputTensor(w), ls)
        IN  [layers  |-> ls,
             first   |-> values[1],
             widths  |-> [k \in DOMAIN values |-> Len(values[k])],
             degrees |-> [k \in DOMAIN values |->
                            [i \in DOMAIN values[k] |-> Degree(values[k][i])]]]]

\* C11: the cross part of the Deep & Cross model starts from cross_0 = x0
\* and applies cross_{k+1} = x0 * Dense(cross_k) + cross_k exactly
\* len(hidden_units) times; the Dense layer of each step has as many units as
\* cross is wide, so cross is as wide as x0 after every step; and, the
\* kernels and biases being free parameters, the polynomial degree of cross
\* in the entries of x0 is k + 1 after k steps, one more for every step.
C11_CrossRecurrence ==
    model.kind = "deep_and_cross" =>
        LET x0 == model.cross.features
            w0 == Width(x0)
            ls == model.cross.layers
            n  == Len(hidden_units)
        IN  /\ x0 = model.deep.features
            /\ \A i \in DOMAIN x0 : x0[i].op # "lookup_binary"
            /\ w0 \in CrossWidths
            /\ Len(ls) = 2 * n + 1
            /\ \A k \in 1..n :
                 /\ ls[2 * k - 1] = [layer |-> "Dense", units |-> w0]
                 /\ ls[2 * k] = [layer |-> "MultiplyAdd", units |-> w0]
            /\ ls[2 * n + 1].layer = "BatchNormalization"
            /\ ls = CrossPart[w0].layers
            /\ CrossPart[w0].first = [i \in 1..w0 |-> {<<i>>}]
            /\ DOMAIN CrossPart[w0].widths = 1..(n + 1)
            /\ \A k \in 0..n :
                 /\ CrossPart[w0].widths[k + 1] = w0
                 /\ \A i \in 1..w0 : CrossPart[w0].degrees[k + 1][i] = k + 1

\* a Deep & Cross model built, fitted and evaluated
C11_Witness ==
    /\ model.kind = "deep_and_cross"
    /\ pc = "printed"
    /\ Width(model.cross.features) = 12
    /\ Len(model.cross.layers) = 5

\* a downloaded record whose soil flags or wilderness flags are all zero
UnconvertibleRecord ==
    \E i \in DOMAIN raw_data.rows : ~RowConvertible(raw_data.rows[i])

\* nothing of the steps after the download exists
NothingAfterDownload ==
    /\ ~Reshaped
    /\ groups = <<>> /\ train_splits = <<>> /\ test_splits = <<>>
    /\ ~Defined(train_data) /\ ~Defined(test_data)
    /\ \A f \in FileNames : files[f] = <<>>
    /\ ~VocabularyDefined
    /\ experiment = 0 /\ ~Built
    /\ ~DatasetCreated
    /\ fit_input = <<>> /\ eval_input = <<>> /\ ~Evaluated
    /\ output = <<>>

\* the step that raised, told from what the steps before it left behind
DownloadRaised == ~Downloaded
ReshapeRaised == Downloaded /\ ~Reshaped
FitRaised == DatasetsCreated /\ ~Fitted
EvaluateRaised == DatasetsCreated /\ Fitted

\* C12: no failure is handled. A step that fails ends the run: nothing runs
\* after it, the failed step included (no retry), so what the later steps
\* would produce does not exist; in particular a downloaded table with a
\* record whose soil flags or wilderness flags are all zero is never
\* reshaped, no train or test file is written from it, and no model is
\* built, fitted or evaluated on it.
C12_FailurePropagates ==
    /\ []((Downloaded /\ UnconvertibleRecord) =>
            /\ pc \in {"downloaded", "failed"}
            /\ NothingAfterDownload)
    /\ [](pc = "failed" =>
            \/ DownloadRaised /\ NothingAfterDownload
            \/ ReshapeRaised /\ UnconvertibleRecord /\ NothingAfterDownload
            \/ /\ FitRaised
               /\ RecordLines(files[train_dataset.path], train_dataset.header) = <<>>
               /\ Compiled
               /\ fit_input = <<>> /\ eval_input = <<>> /\ ~Evaluated
               /\ Len(output) = experiment - 1
            \/ /\ EvaluateRaised
               /\ RecordLines(files[test_dataset.path], test_dataset.header) = <<>>
               /\ eval_input = <<>> /\ ~Evaluated
               /\ Len(output) = experiment - 1)
    /\ [][pc # "failed"]_vars

\* the reshape has raised on a record without a soil flag or without a
\* wilderness flag
C12_Witness ==
    /\ pc = "failed"
    /\ ReshapeRaised
    /\ \E i \in DOMAIN raw_data.rows :
         LET row == raw_data.rows[i]
         IN  \/ ~HasNonzero(Loc(row, SoilFirst, SoilLast))
             \/ ~HasNonzero(Loc(row, WildFirst, WildLast))

====
